---- MODULE Spec2Model ----
(***************************************************************************)
(* Surface / depth-buffer lifecycle of wgpu-bootstrap's Context            *)
(* (src/src/context.rs): the construction sequence of Context::new, the    *)
(* lazy depth view of Context::depth_texture_view and the resize handling  *)
(* of Context::resize, driven by an event loop that forwards the window's  *)
(* resize events and presents frames.                                      *)
(***************************************************************************)
EXTENDS Integers, Sequences, FiniteSets, TLC

\* ---------------------------------------------------------------- bounds
MaxWidth == 2        \* window widths range over 0..MaxWidth
MaxHeight == 2       \* window heights range over 0..MaxHeight
MaxFormats == 2      \* longest list of supported surface formats
MaxModes == 1        \* longest list of present modes / alpha modes
MaxTextures == 3     \* textures the device creates in one run
MaxConfigures == 3   \* surface.configure calls in one run

\* ------------------------------------------------------- option values
None == << >>
Some(x) == << x >>

\* ------------------------------------------------ external vocabularies
\* winit::dpi::PhysicalSize<u32>
PhysicalSize == [width : 0..MaxWidth, height : 0..MaxHeight]

\* wgpu::TextureFormat values a surface may report, and the depth format
TextureFormat == {"Bgra8UnormSrgb", "Rgba8UnormSrgb", "Bgra8Unorm"}
is_srgb(f) == f \in {"Bgra8UnormSrgb", "Rgba8UnormSrgb"}
PresentMode == {"Fifo", "Mailbox"}
CompositeAlphaMode == {"Opaque", "Auto"}

SeqsUpTo(S, n) == UNION {[1..k -> S] : k \in 0..n}

\* wgpu::SurfaceCapabilities as surface.get_capabilities may report them
SurfaceCapabilities ==
    [formats : SeqsUpTo(TextureFormat, MaxFormats),
     present_modes : SeqsUpTo(PresentMode, MaxModes),
     alpha_modes : SeqsUpTo(CompositeAlphaMode, MaxModes)]

VARIABLES
    pc,            \* position in Context::new: the next step, "ready" or "panicked"
    failure,       \* None, or Some(the step whose unwrap / index panicked)
    steps,         \* the steps of Context::new executed so far, in order
    inner_size,    \* the window's current physical size (window.inner_size())
    caps,          \* what surface.get_capabilities(&adapter) reports
    local,         \* locals of Context::new: size, surface_format, config
    self,          \* None, or Some(the Context that new returned)
    surface,       \* the surface: configuration last applied, configure calls
    device,        \* the device: number of textures it has created
    stdout,        \* lines printed
    requested,     \* whether depth_texture_view was ever called
    last,          \* the last operation on the context, with the state before it
    run            \* the current run of consecutive depth_texture_view calls

vars == << pc, failure, steps, inner_size, caps, local, self, surface,
           device, stdout, requested, last, run >>

ctx == self[1]

\* ----------------------------------------------------- create_depth_texture
\* The view of a fresh 2D texture of the given size and format.  The texture
\* is identified by its creation rank on the device.
create_depth_texture(size, depth_format, dev) ==
    [texture |-> dev.textures_created + 1,
     width |-> size.width,
     height |-> size.height,
     depth_or_array_layers |-> 1,
     mip_level_count |-> 1,
     sample_count |-> 1,
     format |-> depth_format]

\* device.create_texture: the device has created one more texture, which
\* stays alive as long as the view made of it is held
create_texture(dev) ==
    [textures_created |-> dev.textures_created + 1,
     live |-> dev.live \union {dev.textures_created + 1}]

\* Drop of an Option<wgpu::TextureView>: a view that is overwritten or goes
\* out of scope releases its texture
drop_view(dev, slot) ==
    IF slot = None THEN dev
    ELSE [dev EXCEPT !.live = @ \ {slot[1].texture}]

\* surface.configure(&device, &config)
configure(surf, config) ==
    [configured |-> Some(config), configures |-> surf.configures + 1]


\* The state a snapshot keeps of the context and of what it drives
Snapshot ==
    [self |-> self, surface |-> surface, device |-> device,
     stdout |-> stdout, inner_size |-> inner_size]

NoOp == [op |-> "none", arg |-> [width |-> 0, height |-> 0], pre |-> None]
NoRun == [calls |-> 0, pre |-> None, ret |-> None]

\* ------------------------------------------------------------ Context::new
\* Iterator::find over formats[i..]: the first element satisfying is_srgb
RECURSIVE find(_, _)
find(formats, i) ==
    IF i > Len(formats) THEN None
    ELSE IF is_srgb(formats[i]) THEN Some(formats[i])
    ELSE find(formats, i + 1)

\* Option::unwrap_or
unwrap_or(opt, default) == IF opt = None THEN default ELSE opt[1]

\* Mutant: no fallback to the first format (find(..).unwrap())
select_format_no_fallback(formats) ==
    IF Len(formats) = 0 THEN None ELSE find(formats, 1)

\* Mutant: always the first format
select_format_first(formats) ==
    IF Len(formats) = 0 THEN None ELSE Some(formats[1])

\* The surface format chosen from surface_caps.formats: None when the
\* expression panics.  The argument of unwrap_or, formats[0], is evaluated
\* before unwrap_or is called, so an empty list panics on the index.
select_format(formats) ==
    IF Len(formats) = 0 THEN None
    ELSE Some(unwrap_or(find(formats, 1), formats[1]))

\* Mutant: width and height are exchanged in the configuration
build_config_swapped(size, surface_format, surface_caps) ==
    IF Len(surface_caps.present_modes) = 0 \/ Len(surface_caps.alpha_modes) = 0
    THEN None
    ELSE Some([usage |-> "RENDER_ATTACHMENT",
               format |-> surface_format,
               width |-> size.height,
               height |-> size.width,
               present_mode |-> surface_caps.present_modes[1],
               alpha_mode |-> surface_caps.alpha_modes[1]])

\* The wgpu::SurfaceConfiguration built from the locals; None when
\* present_modes[0] or alpha_modes[0] panics.
build_config(size, surface_format, surface_caps) ==
    IF Len(surface_caps.present_modes) = 0 \/ Len(surface_caps.alpha_modes) = 0
    THEN None
    ELSE Some([usage |-> "RENDER_ATTACHMENT",
               format |-> surface_format,
               width |-> size.width,
               height |-> size.height,
               present_mode |-> surface_caps.present_modes[1],
               alpha_mode |-> surface_caps.alpha_modes[1]])

\* The struct that new returns
Context(config, size) ==
    [config |-> config,
     size |-> size,
     depth_format |-> "Depth32Float",
     depth_texture_view |-> None]

NoLocal == [size |-> None, surface_format |-> None, config |-> None]
NoCaps == [formats |-> << >>, present_modes |-> << >>, alpha_modes |-> << >>]
NewSurface == [configured |-> None, configures |-> 0]
NewDevice == [textures_created |-> 0, live |-> {}]

\* What every step of new leaves alone
NewFrame == UNCHANGED << inner_size, caps, device, stdout, requested, last, run >>

\* A step of new ran and the next one is `next`
Advance(step, next) ==
    /\ pc = step
    /\ pc' = next
    /\ steps' = Append(steps, step)
    /\ failure' = failure

\* A step of new panicked: an unwrap of None / Err, or an index out of bounds
Panic(step) ==
    /\ pc = step
    /\ pc' = "panicked"
    /\ steps' = Append(steps, step)
    /\ failure' = Some(step)
    /\ UNCHANGED << local, self, surface >>

\* WindowBuilder::new().build(event_loop).unwrap(); window.inner_size()
BuildWindow ==
    /\ NewFrame
    /\ \/ /\ Advance("build_window", "create_surface")
          /\ local' = [local EXCEPT !.size = Some(inner_size)]
          /\ UNCHANGED << self, surface >>
       \/ Panic("build_window")

\* wgpu::Instance::new(..); instance.create_surface(&window).unwrap()
CreateSurface ==
    /\ NewFrame
    /\ \/ /\ Advance("create_surface", "request_adapter")
          /\ UNCHANGED << local, self, surface >>
       \/ Panic("create_surface")

\* Mutant: a failed request is tried again
RequestAdapterRetry ==
    /\ NewFrame
    /\ \/ /\ Advance("request_adapter", "request_device")
          /\ UNCHANGED << local, self, surface >>
       \/ /\ Advance("request_adapter", "request_adapter")
          /\ UNCHANGED << local, self, surface >>

\* instance.request_adapter(..).await.unwrap()
RequestAdapter ==
    /\ NewFrame
    /\ \/ /\ Advance("request_adapter", "request_device")
          /\ UNCHANGED << local, self, surface >>
       \/ Panic("request_adapter")

\* adapter.request_device(..).await.unwrap()
RequestDevice ==
    /\ NewFrame
    /\ \/ /\ Advance("request_device", "select_format")
          /\ UNCHANGED << local, self, surface >>
       \/ Panic("request_device")

\* surface.get_capabilities(&adapter) and the choice of surface_format
SelectFormat ==
    /\ NewFrame
    /\ LET chosen == select_format(caps.formats) IN
       \/ /\ chosen # None
          /\ Advance("select_format", "build_config")
          /\ local' = [local EXCEPT !.surface_format = chosen]
          /\ UNCHANGED << self, surface >>
       \/ /\ chosen = None
          /\ Panic("select_format")

\* let config = wgpu::SurfaceConfiguration { .. }
BuildConfig ==
    /\ NewFrame
    /\ pc = "build_config"
    /\ LET config == build_config(local.size[1], local.surface_format[1], caps) IN
       \/ /\ config # None
          /\ Advance("build_config", "configure")
          /\ local' = [local EXCEPT !.config = config]
          /\ UNCHANGED << self, surface >>
       \/ /\ config = None
          /\ Panic("build_config")

\* surface.configure(&device, &config)
Configure ==
    /\ NewFrame
    /\ Advance("configure", "return")
    /\ surface' = configure(surface, local.config[1])
    /\ UNCHANGED << local, self >>

\* Self { window, surface, device, queue, config, size, depth_format, .. }
Return ==
    /\ Advance("return", "ready")
    /\ self' = Some(Context(local.config[1], local.size[1]))
    /\ local' = NoLocal
    /\ caps' = NoCaps
    /\ UNCHANGED << inner_size, surface, device, stdout, requested, last, run >>

InitNew ==
    /\ pc = "build_window"
    /\ failure = None
    /\ steps = << >>
    /\ inner_size \in PhysicalSize
    /\ caps \in SurfaceCapabilities
    /\ local = NoLocal
    /\ self = None
    /\ surface = NewSurface
    /\ device = NewDevice
    /\ stdout = << >>
    /\ requested = FALSE
    /\ last = NoOp
    /\ run = NoRun

NextNew ==
    \/ BuildWindow
    \/ CreateSurface
    \/ RequestAdapter
    \/ RequestDevice
    \/ SelectFormat
    \/ BuildConfig
    \/ Configure
    \/ Return

\* Construction alone: every window size and every capability report
SpecNew == InitNew /\ [][NextNew]_vars


\* ------------------------------------------- Context::depth_texture_view
\* Mutant: the view is created on every call
depth_texture_view_uncached ==
    /\ stdout' = Append(stdout, "Depth Texture Created")
    /\ self' = Some([ctx EXCEPT !.depth_texture_view =
                        Some(create_depth_texture(ctx.size, ctx.depth_format, device))])
    /\ device' = drop_view(create_texture(device), ctx.depth_texture_view)
    /\ UNCHANGED surface

\* Mutant: creating the depth view configures the surface again
depth_texture_view_reconfigures ==
    /\ IF ctx.depth_texture_view = None
       THEN /\ stdout' = Append(stdout, "Depth Texture Created")
            /\ self' = Some([ctx EXCEPT !.depth_texture_view =
                                Some(create_depth_texture(ctx.size, ctx.depth_format, device))])
            /\ device' = create_texture(device)
            /\ surface' = configure(surface, ctx.config)
       ELSE UNCHANGED << stdout, self, device, surface >>

\* pub fn depth_texture_view(&mut self) -> &wgpu::TextureView; the view it
\* returns is self'.depth_texture_view
depth_texture_view ==
    /\ IF ctx.depth_texture_view = None
       THEN /\ stdout' = Append(stdout, "Depth Texture Created")
            /\ self' = Some([ctx EXCEPT !.depth_texture_view =
                                Some(create_depth_texture(ctx.size, ctx.depth_format, device))])
            /\ device' = create_texture(device)
       ELSE UNCHANGED << stdout, self, device >>
    /\ UNCHANGED surface

\* ---------------------------------------------------------- Context::resize
\* Mutant: the cached depth view is kept across a resize
resize_keeps_view(new_size) ==
    /\ IF new_size.width > 0 /\ new_size.height > 0
       THEN LET config == [ctx.config EXCEPT !.width = new_size.width,
                                             !.height = new_size.height] IN
            /\ surface' = configure(surface, config)
            /\ self' = Some([ctx EXCEPT !.size = new_size, !.config = config])
            /\ device' = device
       ELSE UNCHANGED << self, surface, device >>
    /\ UNCHANGED stdout

\* Mutant: the depth texture is created before self.size is assigned
resize_stale_size(new_size) ==
    /\ IF new_size.width > 0 /\ new_size.height > 0
       THEN LET config == [ctx.config EXCEPT !.width = new_size.width,
                                             !.height = new_size.height] IN
            /\ surface' = configure(surface, config)
            /\ IF ctx.depth_texture_view = None
               THEN /\ self' = Some([ctx EXCEPT !.size = new_size, !.config = config])
                    /\ device' = device
               ELSE /\ self' = Some([ctx EXCEPT
                            !.size = new_size,
                            !.config = config,
                            !.depth_texture_view =
                                Some(create_depth_texture(ctx.size, ctx.depth_format, device))])
                    /\ device' = drop_view(create_texture(device), ctx.depth_texture_view)
       ELSE UNCHANGED << self, surface, device >>
    /\ UNCHANGED stdout

\* Mutant: the guard is `width > 0 || height > 0`
resize_guard_or(new_size) ==
    /\ IF new_size.width > 0 \/ new_size.height > 0
       THEN LET config == [ctx.config EXCEPT !.width = new_size.width,
                                             !.height = new_size.height] IN
            /\ surface' = configure(surface, config)
            /\ IF ctx.depth_texture_view = None
               THEN /\ self' = Some([ctx EXCEPT !.size = new_size, !.config = config])
                    /\ device' = device
               ELSE /\ self' = Some([ctx EXCEPT
                            !.size = new_size,
                            !.config = config,
                            !.depth_texture_view =
                                Some(create_depth_texture(new_size, ctx.depth_format, device))])
                    /\ device' = drop_view(create_texture(device), ctx.depth_texture_view)
       ELSE UNCHANGED << self, surface, device >>
    /\ UNCHANGED stdout

\* Mutant: the depth view is created whether or not one was cached
resize_eager(new_size) ==
    /\ IF new_size.width > 0 /\ new_size.height > 0
       THEN LET config == [ctx.config EXCEPT !.width = new_size.width,
                                             !.height = new_size.height] IN
            /\ surface' = configure(surface, config)
            /\ self' = Some([ctx EXCEPT
                            !.size = new_size,
                            !.config = config,
                            !.depth_texture_view =
                                Some(create_depth_texture(new_size, ctx.depth_format, device))])
            /\ device' = drop_view(create_texture(device), ctx.depth_texture_view)
       ELSE UNCHANGED << self, surface, device >>
    /\ UNCHANGED stdout

\* Mutant: config.height is not updated
resize_width_only(new_size) ==
    /\ IF new_size.width > 0 /\ new_size.height > 0
       THEN LET config == [ctx.config EXCEPT !.width = new_size.width] IN
            /\ surface' = configure(surface, config)
            /\ IF ctx.depth_texture_view = None
               THEN /\ self' = Some([ctx EXCEPT !.size = new_size, !.config = config])
                    /\ device' = device
               ELSE /\ self' = Some([ctx EXCEPT
                            !.size = new_size,
                            !.config = config,
                            !.depth_texture_view =
                                Some(create_depth_texture(new_size, ctx.depth_format, device))])
                    /\ device' = drop_view(create_texture(device), ctx.depth_texture_view)
       ELSE UNCHANGED << self, surface, device >>
    /\ UNCHANGED stdout

\* Mutant: the surface is configured before config.width and config.height are updated
resize_configure_first(new_size) ==
    /\ IF new_size.width > 0 /\ new_size.height > 0
       THEN LET config == [ctx.config EXCEPT !.width = new_size.width,
                                             !.height = new_size.height] IN
            /\ surface' = configure(surface, ctx.config)
            /\ IF ctx.depth_texture_view = None
               THEN /\ self' = Some([ctx EXCEPT !.size = new_size, !.config = config])
                    /\ device' = device
               ELSE /\ self' = Some([ctx EXCEPT
                            !.size = new_size,
                            !.config = config,
                            !.depth_texture_view =
                                Some(create_depth_texture(new_size, ctx.depth_format, device))])
                    /\ device' = drop_view(create_texture(device), ctx.depth_texture_view)
       ELSE UNCHANGED << self, surface, device >>
    /\ UNCHANGED stdout

\* Mutant: the cached depth view is dropped and left to the next depth_texture_view call
resize_invalidates(new_size) ==
    /\ IF new_size.width > 0 /\ new_size.height > 0
       THEN LET config == [ctx.config EXCEPT !.width = new_size.width,
                                             !.height = new_size.height] IN
            /\ surface' = configure(surface, config)
            /\ IF ctx.depth_texture_view = None
               THEN /\ self' = Some([ctx EXCEPT !.size = new_size, !.config = config])
                    /\ device' = device
               ELSE /\ self' = Some([ctx EXCEPT
                            !.size = new_size,
                            !.config = config,
                            !.depth_texture_view = None])
                    /\ device' = drop_view(device, ctx.depth_texture_view)
       ELSE UNCHANGED << self, surface, device >>
    /\ UNCHANGED stdout

\* Mutant: the configuration is rebuilt with the default present mode
resize_rebuilds_config(new_size) ==
    /\ IF new_size.width > 0 /\ new_size.height > 0
       THEN LET config == [ctx.config EXCEPT !.width = new_size.width,
                                             !.height = new_size.height,
                                             !.present_mode = "Fifo"] IN
            /\ surface' = configure(surface, config)
            /\ IF ctx.depth_texture_view = None
               THEN /\ self' = Some([ctx EXCEPT !.size = new_size, !.config = config])
                    /\ device' = device
               ELSE /\ self' = Some([ctx EXCEPT
                            !.size = new_size,
                            !.config = config,
                            !.depth_texture_view =
                                Some(create_depth_texture(new_size, ctx.depth_format, device))])
                    /\ device' = drop_view(create_texture(device), ctx.depth_texture_view)
       ELSE UNCHANGED << self, surface, device >>
    /\ UNCHANGED stdout

\* Mutant: the recreation of the depth texture prints the creation line
resize_logs(new_size) ==
    /\ IF new_size.width > 0 /\ new_size.height > 0
       THEN LET config == [ctx.config EXCEPT !.width = new_size.width,
                                             !.height = new_size.height] IN
            /\ surface' = configure(surface, config)
            /\ IF ctx.depth_texture_view = None
               THEN /\ self' = Some([ctx EXCEPT !.size = new_size, !.config = config])
                    /\ device' = device
               ELSE /\ self' = Some([ctx EXCEPT
                            !.size = new_size,
                            !.config = config,
                            !.depth_texture_view =
                                Some(create_depth_texture(new_size, ctx.depth_format, device))])
                    /\ device' = drop_view(create_texture(device), ctx.depth_texture_view)
       ELSE UNCHANGED << self, surface, device >>
    /\ stdout' = IF new_size.width > 0 /\ new_size.height > 0
                     /\ ctx.depth_texture_view # None
                  THEN Append(stdout, "Depth Texture Created")
                  ELSE stdout

\* Mutant: the previous depth view is kept alive when it is replaced
resize_leaks(new_size) ==
    /\ IF new_size.width > 0 /\ new_size.height > 0
       THEN LET config == [ctx.config EXCEPT !.width = new_size.width,
                                             !.height = new_size.height] IN
            /\ surface' = configure(surface, config)
            /\ IF ctx.depth_texture_view = None
               THEN /\ self' = Some([ctx EXCEPT !.size = new_size, !.config = config])
                    /\ device' = device
               ELSE /\ self' = Some([ctx EXCEPT
                            !.size = new_size,
                            !.config = config,
                            !.depth_texture_view =
                                Some(create_depth_texture(new_size, ctx.depth_format, device))])
                    /\ device' = create_texture(device)
       ELSE UNCHANGED << self, surface, device >>
    /\ UNCHANGED stdout

\* pub fn resize(&mut self, new_size: winit::dpi::PhysicalSize<u32>)
resize(new_size) ==
    /\ IF new_size.width > 0 /\ new_size.height > 0
       THEN LET config == [ctx.config EXCEPT !.width = new_size.width,
                                             !.height = new_size.height] IN
            /\ surface' = configure(surface, config)
            /\ IF ctx.depth_texture_view = None
               THEN /\ self' = Some([ctx EXCEPT !.size = new_size, !.config = config])
                    /\ device' = device
               ELSE /\ self' = Some([ctx EXCEPT
                            !.size = new_size,
                            !.config = config,
                            !.depth_texture_view =
                                Some(create_depth_texture(new_size, ctx.depth_format, device))])
                    /\ device' = drop_view(create_texture(device), ctx.depth_texture_view)
       ELSE UNCHANGED << self, surface, device >>
    /\ UNCHANGED stdout

\* -------------------------------------------------------- the event loop
\* What the operations on a constructed context leave alone
ReadyFrame == pc = "ready" /\ UNCHANGED << pc, failure, steps, caps, local >>

\* The runs explored stay within MaxConfigures configure calls and
\* MaxTextures textures
WithinBounds(new_size) ==
    (new_size.width > 0 /\ new_size.height > 0) =>
        /\ surface.configures < MaxConfigures
        /\ device.textures_created < MaxTextures

\* The window takes a new physical size and the event loop forwards the
\* resize event to Context::resize
WindowResized(new_size) ==
    /\ ReadyFrame
    /\ WithinBounds(new_size)
    /\ inner_size' = new_size
    /\ resize(new_size)
    /\ last' = [op |-> "resize", arg |-> new_size, pre |-> Some(Snapshot)]
    /\ run' = NoRun
    /\ UNCHANGED requested

\* The application asks the context for its depth view
DepthViewRequested ==
    /\ ReadyFrame
    /\ ctx.depth_texture_view = None => device.textures_created < MaxTextures
    /\ depth_texture_view
    /\ last' = [op |-> "depth_texture_view", arg |-> ctx.size, pre |-> Some(Snapshot)]
    /\ run' = IF run.calls = 0
              THEN [calls |-> 1, pre |-> Some(Snapshot),
                    ret |-> self'[1].depth_texture_view]
              ELSE [run EXCEPT !.calls = 2]
    /\ requested' = TRUE
    /\ UNCHANGED inner_size

\* The event loop presents a frame on the surface
FramePresented ==
    /\ ReadyFrame
    /\ last' = [op |-> "present", arg |-> inner_size, pre |-> Some(Snapshot)]
    /\ UNCHANGED << inner_size, self, surface, device, stdout, requested, run >>

\* Capability reports under which new returns a context
ReadyCaps ==
    {c \in SurfaceCapabilities :
        /\ Len(c.formats) > 0
        /\ Len(c.present_modes) > 0
        /\ Len(c.alpha_modes) > 0}

\* The state in which new returns for a window of the given size and the
\* given capability report
Returned(size, surface_caps) ==
    LET surface_format == select_format(surface_caps.formats)[1]
        config == build_config(size, surface_format, surface_caps)[1]
    IN  /\ pc = "ready"
        /\ failure = None
        /\ steps = << "build_window", "create_surface", "request_adapter",
                      "request_device", "select_format", "build_config",
                      "configure", "return" >>
        /\ inner_size = size
        /\ caps = NoCaps
        /\ local = NoLocal
        /\ self = Some(Context(config, size))
        /\ surface = configure(NewSurface, config)
        /\ device = NewDevice
        /\ stdout = << >>
        /\ requested = FALSE
        /\ last = NoOp
        /\ run = NoRun

\* The states in which new returns: the window was created with a positive
\* width and height, or with a zero dimension (hidden or minimised)
Init ==
    \/ \E size \in {s \in PhysicalSize : s.width > 0 /\ s.height > 0},
          surface_caps \in ReadyCaps : Returned(size, surface_caps)
    \/ \E size \in {s \in PhysicalSize : s.width = 0 \/ s.height = 0},
          surface_caps \in ReadyCaps : Returned(size, surface_caps)

Next ==
    \/ \E new_size \in PhysicalSize : WindowResized(new_size)
    \/ DepthViewRequested
    \/ FramePresented

\* The lifetime of a constructed context under the event loop
Spec == Init /\ [][Next]_vars


\* ------------------------------------------------------------ properties
pre == last.pre[1]
view == ctx.depth_texture_view[1]
Degenerate(size) == size.width = 0 \/ size.height = 0
Executed(step) == \E i \in 1..Len(steps) : steps[i] = step
Resized == last.op = "resize" /\ ~Degenerate(last.arg)

\* C1  Resize invalidation: after resize(W2,H2) with W2 > 0, H2 > 0 and W2
\* different from the width of the depth view present before the call, a
\* depth view is present, its texture has dimensions (W2,H2), it is a texture
\* the device created during the call, and it is not the texture cached
\* before the call.
C1_ResizeInvalidation ==
    (/\ Resized
     /\ pre.self[1].depth_texture_view # None
     /\ last.arg.width # pre.self[1].depth_texture_view[1].width)
    => /\ ctx.depth_texture_view # None
       /\ view.width = last.arg.width
       /\ view.height = last.arg.height
       /\ view.texture # pre.self[1].depth_texture_view[1].texture
       /\ view.texture > pre.device.textures_created
       /\ device.textures_created = pre.device.textures_created + 1

C1_Witness ==
    /\ Resized
    /\ pre.self[1].depth_texture_view # None
    /\ last.arg.width # pre.self[1].depth_texture_view[1].width
    /\ ctx.depth_texture_view # None
    /\ view.width = last.arg.width

\* C2  Depth-view size invariant: whenever the depth view is present, the
\* dimensions of its texture equal the cached size.
C2_DepthViewMatchesSize ==
    ctx.depth_texture_view # None
    => /\ view.width = ctx.size.width
       /\ view.height = ctx.size.height

C2_Witness ==
    /\ Resized
    /\ pre.self[1].depth_texture_view # None
    /\ pre.self[1].size # ctx.size
    /\ ctx.depth_texture_view # None

\* C3  Idempotent caching: of two depth_texture_view calls with no resize
\* between them, the second returns the view the first returned, creates no
\* texture and prints nothing; when the view was absent before the first
\* call, the creation line is printed exactly once over the two calls.
C3_IdempotentCaching ==
    (run.calls = 2 /\ last.op = "depth_texture_view")
    => /\ run.ret # None
       /\ ctx.depth_texture_view = run.ret
       /\ device = pre.device
       /\ stdout = pre.stdout
       /\ run.pre[1].self[1].depth_texture_view = None
            => stdout = Append(run.pre[1].stdout, "Depth Texture Created")

C3_Witness ==
    /\ run.calls = 2
    /\ last.op = "depth_texture_view"
    /\ run.pre[1].self[1].depth_texture_view = None
    /\ Len(stdout) = 1

\* C4  Degenerate resize is a no-op: resize with a zero width or height
\* leaves size, config and the depth-view slot as they were, does not
\* configure the surface and creates no texture.
C4_DegenerateResizeNoOp ==
    (last.op = "resize" /\ Degenerate(last.arg))
    => /\ self = pre.self
       /\ surface = pre.surface
       /\ device = pre.device

C4_Witness ==
    /\ last.op = "resize"
    /\ last.arg.width = 0
    /\ last.arg.height > 0
    /\ ctx.depth_texture_view # None
    /\ surface.configures > 1

\* C5  Lazy non-creation: as long as depth_texture_view was never called,
\* whatever resizes happened, the depth view is absent and the device has
\* created no texture.
C5_LazyNonCreation ==
    ~requested
    => /\ ctx.depth_texture_view = None
       /\ device.textures_created = 0

C5_Witness ==
    /\ ~requested
    /\ Resized
    /\ ctx.size # pre.self[1].size
    /\ ctx.depth_texture_view = None

\* C6  Configuration mirrors size: right after resize(new_size) with both
\* dimensions positive, config.width and config.height are new_size's and
\* size is new_size.
C6_ConfigMirrorsSize ==
    Resized
    => /\ ctx.config.width = last.arg.width
       /\ ctx.config.height = last.arg.height
       /\ ctx.size = last.arg

C6_Witness ==
    /\ Resized
    /\ pre.self[1].config.width # last.arg.width
    /\ pre.self[1].config.height # last.arg.height
    /\ ctx.size = last.arg


\* C7  Surface format selection: once construction has chosen the surface
\* format from the reported list, the chosen format is the entry of lowest
\* index flagged sRGB when some entry is sRGB, and the first entry of the
\* list otherwise.
C7_FormatSelection ==
    LET formats == caps.formats
        srgb == {i \in 1..Len(formats) : is_srgb(formats[i])}
    IN  local.surface_format # None
        => IF srgb # {}
           THEN \E i \in srgb :
                    /\ \A j \in srgb : i <= j
                    /\ local.surface_format[1] = formats[i]
           ELSE local.surface_format[1] = formats[1]

C7_Witness ==
    /\ local.surface_format # None
    /\ Len(caps.formats) > 1
    /\ ~is_srgb(caps.formats[1])
    /\ is_srgb(caps.formats[2])
    /\ local.surface_format[1] = caps.formats[2]

\* C8 as claimed: whenever a frame is presented, config.width and
\* config.height equal the window's current physical size.
C8_PresentedMatchesWindow ==
    last.op = "present"
    => /\ ctx.config.width = inner_size.width
       /\ ctx.config.height = inner_size.height

\* C8  Presented configuration matches the window: whenever a frame is
\* presented while the window's current physical size has a positive width
\* and a positive height, config.width and config.height equal that size.
C8_PresentedMatchesVisibleWindow ==
    (last.op = "present" /\ ~Degenerate(inner_size))
    => /\ ctx.config.width = inner_size.width
       /\ ctx.config.height = inner_size.height

C8_Witness ==
    /\ last.op = "present"
    /\ ~Degenerate(inner_size)
    /\ surface.configures > 1
    /\ pre.self[1].config.width = inner_size.width
    /\ surface.configured[1].height = inner_size.height

\* What C9 states of a failed construction besides the list of its causes:
\* the failing step is the last step executed, no Context exists, the surface
\* was never configured, and no step of new ran twice.
FatalAndSingleShot ==
    /\ pc = "panicked" <=> failure # None
    /\ failure # None
       => /\ steps[Len(steps)] = failure[1]
          /\ self = None
          /\ surface = NewSurface
          /\ ~ENABLED NextNew
    /\ \A i, j \in 1..Len(steps) : steps[i] = steps[j] => i = j

\* C9 as claimed: construction fails only through window creation, the
\* adapter request or the device request, and each failure is fatal.
C9_ThreeFailures ==
    /\ failure # None
       => failure[1] \in {"build_window", "request_adapter", "request_device"}
    /\ FatalAndSingleShot

\* C9  Construction failure taxonomy: construction fails only through window
\* creation, surface creation, the adapter request, the device request, or
\* the indexing of an empty list of supported formats, present modes or alpha
\* modes; each failure is fatal: no Context, no retry, no later step, the
\* surface never configured.
C9_FailureTaxonomy ==
    /\ failure # None
       => failure[1] \in {"build_window", "create_surface", "request_adapter",
                          "request_device", "select_format", "build_config"}
    /\ FatalAndSingleShot

C9_Witness ==
    /\ failure = Some("build_config")
    /\ pc = "panicked"
    /\ local.surface_format # None
    /\ Len(steps) = 6

\* C10 as claimed: whatever list of formats is reported, the selection step
\* yields a format and does not abort construction.
C10_SelectionNeverFails ==
    (Executed("select_format") /\ pc # "ready")
    => /\ failure # Some("select_format")
       /\ local.surface_format # None

\* C10  Format selection fails only on an empty list: for every non-empty
\* list of supported formats the selection step yields a format of the list
\* and does not abort construction; on an empty list it panics.
C10_SelectionFailsOnlyOnEmpty ==
    (Executed("select_format") /\ pc # "ready")
    => IF Len(caps.formats) > 0
       THEN /\ failure # Some("select_format")
            /\ local.surface_format # None
            /\ \E i \in 1..Len(caps.formats) :
                   local.surface_format[1] = caps.formats[i]
       ELSE failure = Some("select_format")

C10_Witness ==
    /\ Executed("select_format")
    /\ pc = "build_config"
    /\ Len(caps.formats) > 0
    /\ \A i \in 1..Len(caps.formats) : ~is_srgb(caps.formats[i])
    /\ local.surface_format = Some(caps.formats[1])


\* C11  Post-construction state: when new returns a context, size is the
\* window's physical size queried during construction, config.width and
\* config.height equal it, the configuration was applied to the surface
\* exactly once and after the device was acquired, depth_format is
\* Depth32Float, the depth view is absent and no texture was created.
C11_PostConstruction ==
    pc = "ready"
    => /\ ctx.size = inner_size
       /\ ctx.config.width = ctx.size.width
       /\ ctx.config.height = ctx.size.height
       /\ surface.configures = 1
       /\ surface.configured = Some(ctx.config)
       /\ \E i, j \in 1..Len(steps) :
              /\ i < j
              /\ steps[i] = "request_device"
              /\ steps[j] = "configure"
       /\ ctx.depth_format = "Depth32Float"
       /\ ctx.depth_texture_view = None
       /\ device.textures_created = 0

C11_Witness ==
    /\ pc = "ready"
    /\ Executed("return")
    /\ ctx.size.width > ctx.size.height
    /\ ctx.size.height > 0
    /\ surface.configures = 1


\* C12  No stale surface configuration: the configuration last applied to
\* the surface equals the context's config field for field, and every resize
\* with positive dimensions applies the configuration exactly once, with
\* config.width and config.height already updated.
C12_NoStaleConfiguration ==
    /\ surface.configured = Some(ctx.config)
    /\ Resized
       => /\ surface.configures = pre.surface.configures + 1
          /\ surface.configured[1].width = last.arg.width
          /\ surface.configured[1].height = last.arg.height

C12_Witness ==
    /\ Resized
    /\ pre.surface.configured # surface.configured
    /\ surface.configured = Some(ctx.config)
    /\ surface.configures = 2

\* C13  Size/config agreement: size.width = config.width and size.height =
\* config.height in every state, and when the window had a positive width
\* and height at construction, size keeps a positive width and height
\* whatever resizes (degenerate ones included) and depth_texture_view calls
\* follow.
C13_SizeConfigAgreement ==
    /\ [](/\ ctx.size.width = ctx.config.width
          /\ ctx.size.height = ctx.config.height)
    /\ ~Degenerate(inner_size) => [](~Degenerate(ctx.size))

C13_Witness ==
    /\ last.op = "resize"
    /\ Degenerate(last.arg)
    /\ ~Degenerate(ctx.size)
    /\ pre.self[1].size # pre.inner_size
    /\ ctx.size.width = ctx.config.width
    /\ ctx.size.height = ctx.config.height


Acted == last.op # "none"
WasPresent == pre.self[1].depth_texture_view # None
IsPresent == ctx.depth_texture_view # None

\* C14  Depth-view presence is monotonic and untouched by resize: across
\* every operation a view that was present stays present; across a resize
\* (degenerate or not) the view is present after exactly when it was present
\* before; and the view goes from absent to present only in a
\* depth_texture_view call.
C14_PresenceMonotonic ==
    Acted
    => /\ WasPresent => IsPresent
       /\ last.op = "resize" => (IsPresent <=> WasPresent)
       /\ (~WasPresent /\ IsPresent) => last.op = "depth_texture_view"

C14_Witness ==
    /\ Resized
    /\ WasPresent
    /\ IsPresent
    /\ pre.self[1].size # ctx.size
    /\ surface.configures = 3

\* C15  Fixed-at-construction fields: no operation changes depth_format or
\* the config's format, usage, present mode or alpha mode; a resize changes
\* nothing besides size, config.width, config.height, the surface's applied
\* configuration and the depth-view slot (with the texture behind it); and
\* the texture of the depth view always has format depth_format.
C15_FixedFields ==
    /\ Acted
       => /\ ctx.depth_format = pre.self[1].depth_format
          /\ ctx.config.format = pre.self[1].config.format
          /\ ctx.config.usage = pre.self[1].config.usage
          /\ ctx.config.present_mode = pre.self[1].config.present_mode
          /\ ctx.config.alpha_mode = pre.self[1].config.alpha_mode
    /\ last.op = "resize"
       => /\ stdout = pre.stdout
          /\ pre.self[1] =
                 [ctx EXCEPT !.size = pre.self[1].size,
                             !.config.width = pre.self[1].config.width,
                             !.config.height = pre.self[1].config.height,
                             !.depth_texture_view = pre.self[1].depth_texture_view]
    /\ IsPresent => view.format = ctx.depth_format

C15_Witness ==
    /\ Resized
    /\ WasPresent
    /\ pre.self[1].size # ctx.size
    /\ ctx.config.present_mode = "Mailbox"
    /\ ~is_srgb(ctx.config.format)
    /\ view.format = "Depth32Float"

\* C16  depth_texture_view touches only the cache slot: a call leaves size,
\* config and the surface (applied configuration and number of configure
\* calls) as they were, creates a texture, sized to the current size, exactly
\* when the view was absent before the call, and returns with the view
\* present.
C16_DepthViewOnlyCache ==
    last.op = "depth_texture_view"
    => /\ ctx.size = pre.self[1].size
       /\ ctx.config = pre.self[1].config
       /\ surface = pre.surface
       /\ IsPresent
       /\ IF WasPresent
          THEN /\ device = pre.device
               /\ ctx.depth_texture_view = pre.self[1].depth_texture_view
          ELSE /\ device.textures_created = pre.device.textures_created + 1
               /\ view.texture = device.textures_created
               /\ view.width = ctx.size.width
               /\ view.height = ctx.size.height

C16_Witness ==
    /\ last.op = "depth_texture_view"
    /\ ~WasPresent
    /\ IsPresent
    /\ surface.configures = 2
    /\ view.width = 2

\* C17  Creation event on first creation only: the creation line is printed
\* by an operation exactly when the operation is a depth_texture_view call
\* made while the view is absent, so it is printed at most once in the
\* context's lifetime; a resize that recreates the view prints nothing.
C17_CreationEventOnce ==
    /\ Len(stdout) <= 1
    /\ \A i \in 1..Len(stdout) : stdout[i] = "Depth Texture Created"
    /\ Acted
       => IF last.op = "depth_texture_view" /\ ~WasPresent
          THEN stdout = Append(pre.stdout, "Depth Texture Created")
          ELSE stdout = pre.stdout

C17_Witness ==
    /\ Resized
    /\ WasPresent
    /\ view.texture = 2
    /\ Len(stdout) = 1

\* C18  No stale depth buffer is retained: the context holds at most one
\* depth texture view, the only texture alive is the one behind that view,
\* and a resize that recreates the view releases the previous texture in the
\* same step, however many resizes occur.
C18_NoStaleDepthBuffer ==
    /\ Len(ctx.depth_texture_view) <= 1
    /\ Cardinality(device.live) <= 1
    /\ device.live = {ctx.depth_texture_view[i].texture :
                          i \in 1..Len(ctx.depth_texture_view)}
    /\ (Resized /\ WasPresent)
       => pre.self[1].depth_texture_view[1].texture \notin device.live

C18_Witness ==
    /\ Resized
    /\ WasPresent
    /\ device.textures_created = 3
    /\ device.live = {3}

====
